---- MODULE Spec2Model ----
(***************************************************************************)
(* A model of AuditLangInterpreter: the rule parser (SemanticTreeBuilder),  *)
(* the policy pipeline (ScriptProcessor) and the remote executor           *)
(* (SemanticTreeExecutor, ContentRuleChecker, ExecutionNodeExecutor).      *)
(*                                                                         *)
(* Text is modelled by what the code reads from it.  A line of a file or   *)
(* of command output is the set of patterns that re.search / "in" find in  *)
(* it, plus what capture group 1 of a numeric pattern yields on it.        *)
(***************************************************************************)
EXTENDS Integers, Sequences, FiniteSets, TLC

VARIABLES
    cm_files,      \* ContentRuleChecker input: the files a FileRule's probe found
    cm_rules,      \* ContentRuleChecker.content_rules
    cm_neg,        \* ContentRuleChecker.rule_negation
    cm_out,        \* the last ContentRuleChecker call and its result
    errors,        \* SemanticTreeBuilder.errors
    verrors,       \* len(ScriptValidator.errors)
    bt,            \* the last build_tree call and what it returned
    pr,            \* the last ScriptProcessor.process call and what it returned
    client,        \* SSHManager.client: "none", "unconnected" or "connected"
    ssh,           \* the calls made on the SSHManager and what they did
    ex,            \* SemanticTreeExecutor.execute_tree: its locals and its return
    api            \* the demo API: current_id, the requests in flight, the result files

cmvars == <<cm_files, cm_rules, cm_neg, cm_out>>
bvars == <<errors, verrors, bt, pr>>
evars == <<client, ssh, ex>>
avars == <<api>>

vars == <<cm_files, cm_rules, cm_neg, cm_out, errors, verrors, bt, pr, client, ssh, ex, api>>

\* what the calls on the matcher, on the builder, on the executor and on the
\* demo API leave alone
not_cm == <<bvars, evars, avars>>
not_b == <<cmvars, evars, avars>>
not_e == <<cmvars, bvars, avars>>
not_a == <<cmvars, bvars, evars>>

\* ------------------------------------------------------------------------
\* Bounds of the model
\* ------------------------------------------------------------------------
MaxLines == 2          \* lines of one body
MaxContentRules == 2   \* content rules of one rule
MaxFiles == 2          \* files discovered by one probe

\* All sequences over S of length 0..n
RECURSIVE SeqsUpTo(_, _)
SeqsUpTo(S, n) ==
    IF n = 0 THEN {<<>>}
    ELSE LET shorter == SeqsUpTo(S, n - 1)
         IN  shorter \cup {Append(s, x) : s \in {t \in shorter : Len(t) = n - 1}, x \in S}

\* ------------------------------------------------------------------------
\* Text: lines, bodies, files
\* ------------------------------------------------------------------------
\* A line: the patterns found in it; whether capture group 1 of a numeric
\* pattern parses with int() on it, and the integer it yields.
Line(toks, isint, num) == [toks |-> toks, isint |-> isint, num |-> num]

SampleLines ==
    { Line({"a"}, TRUE, 4),
      Line({"a", "b"}, TRUE, 6),
      Line({"b"}, FALSE, 0),
      Line({"a"}, FALSE, 0) }

Bodies == SeqsUpTo(SampleLines, MaxLines)

\* A file on the host: whether "cat" exits 0 on it, and its stripped content.
File(readable, lines) == [readable |-> readable, lines |-> lines]

\* ------------------------------------------------------------------------
\* ContentRule dictionaries as the executor reads them
\* ------------------------------------------------------------------------
\* content_operator: "r" regex, "n" numeric, "none" (Python None) substring.
ContentRule(op, value, cop, cval, neg) ==
    [content_operator |-> op, value |-> value, compare_operator |-> cop,
     compare_value |-> cval, negation |-> neg]

SampleContentRules ==
    { ContentRule("r", "a", "none", 0, FALSE),
      ContentRule("r", "a", "none", 0, TRUE),
      ContentRule("none", "b", "none", 0, FALSE),
      ContentRule("n", "a", "<=", 4, FALSE) }

ContentRuleLists == SeqsUpTo(SampleContentRules, MaxContentRules)

\* Results of an evaluation that may raise: "true", "false", "raise".
B3(b) == IF b THEN "true" ELSE "false"

\* ContentRuleChecker.numeric_compare: no match => False; int() of the
\* capture raising, or any other exception, is re-raised (the handler itself
\* raises, ExecutionError has no INVALID_COMPARE_EXPRESSION member).
numeric_compare(line, value, compare_operator, compare_value) ==
    IF value \notin line.toks THEN "false"
    ELSE IF ~line.isint THEN "raise"
    ELSE CASE compare_operator = ">"  -> B3(line.num > compare_value)
           [] compare_operator = ">=" -> B3(line.num >= compare_value)
           [] compare_operator = "<"  -> B3(line.num < compare_value)
           [] compare_operator = "<=" -> B3(line.num <= compare_value)
           [] compare_operator = "==" -> B3(line.num = compare_value)
           [] compare_operator = "!=" -> B3(line.num # compare_value)
           [] OTHER -> "false"

\* ContentRuleChecker._does_line_match_rule
does_line_match_rule(line, rule) ==
    CASE rule.content_operator = "r" -> B3(rule.value \in line.toks)
      [] rule.content_operator = "n" ->
            numeric_compare(line, rule.value, rule.compare_operator, rule.compare_value)
      [] rule.content_operator = "none" -> B3(rule.value \in line.toks)
      [] OTHER -> "false"

\* The inner loop of _check_lines over content_rules[k..]: line_match, with
\* the rule's own negation applied to each predicate before the conjunction.
RECURSIVE line_matches(_, _, _)
line_matches(line, content_rules, k) ==
    IF k > Len(content_rules) THEN "true"
    ELSE LET raw == does_line_match_rule(line, content_rules[k])
             rule_match == IF raw = "raise" THEN "raise"
                           ELSE IF content_rules[k].negation
                                THEN B3(raw = "false") ELSE raw
         IN  IF rule_match = "raise" THEN "raise"
             ELSE IF rule_match = "false" THEN "false"
             ELSE line_matches(line, content_rules, k + 1)

\* The outer loop of _check_lines over lines[i..]: match before negation.
RECURSIVE any_line_matches(_, _, _)
any_line_matches(lines, content_rules, i) ==
    IF i > Len(lines) THEN "false"
    ELSE LET lm == line_matches(lines[i], content_rules, 1)
         IN  IF lm = "raise" THEN "raise"
             ELSE IF lm = "true" THEN "true"
             ELSE any_line_matches(lines, content_rules, i + 1)

\* The mutant of apply_rule_negation that drops the rule-level flip.
apply_rule_negation_dropped(m, rule_negation) == m

\* The tail of _check_lines: "if self.rule_negation: match = not match".
apply_rule_negation(m, rule_negation) ==
    IF m = "raise" THEN "raise"
    ELSE IF rule_negation THEN B3(m = "false") ELSE m

\* ContentRuleChecker._check_lines (core): "true"/"false" is the success of
\* the ContentCheckResult; "raise" is an exception leaving the method.
check_lines(lines, content_rules, rule_negation) ==
    apply_rule_negation(any_line_matches(lines, content_rules, 1), rule_negation)

\* ContentRuleChecker.read_and_check_file (core): the success of the
\* ContentCheckResult. A non-zero exit of the read is a failure; an empty
\* body without content rules succeeds at once; any exception is caught and
\* becomes a failure (UNKNOWN_ERROR).
read_and_check_file(file, content_rules, rule_negation) ==
    IF ~file.readable THEN FALSE
    ELSE IF file.lines = <<>> /\ content_rules = <<>> THEN TRUE
    ELSE check_lines(file.lines, content_rules, rule_negation) = "true"

\* results of the loop of check_file_content: one boolean per file
file_results(files, content_rules, rule_negation) ==
    [i \in 1..Len(files) |-> read_and_check_file(files[i], content_rules, rule_negation)]

\* "final_result = any(results)" of check_file_content (core)
reduce_file_results(results) == \E i \in 1..Len(results) : results[i]

\* ContentRuleChecker.check_file_content (core), content already a list of
\* files: the success of the ContentCheckResult.
check_file_content(files, content_rules, rule_negation) ==
    IF files = <<>> THEN FALSE
    ELSE reduce_file_results(file_results(files, content_rules, rule_negation))

\* ---- the demo backend's copy of the executor ---------------------------
\* demo ContentRuleChecker.numeric_compare(content, value): reads
\* self.compare_value, which the class never sets, once the pattern matched.
demo_numeric_compare(line, value) ==
    IF value \notin line.toks THEN "false" ELSE "raise"

\* demo ContentRuleChecker._check_line_against_rule (negation applied inside)
demo_check_line_against_rule(line, rule) ==
    LET raw == CASE rule.content_operator = "r" -> B3(rule.value \in line.toks)
                 [] rule.content_operator = "n" -> demo_numeric_compare(line, rule.value)
                 [] rule.content_operator = "none" -> B3(rule.value \in line.toks)
                 [] OTHER -> "other"
    IN  IF raw = "other" THEN "false"
        ELSE IF raw = "raise" THEN "raise"
        ELSE IF rule.negation THEN B3(raw = "false") ELSE raw

RECURSIVE demo_all_rules(_, _, _)
demo_all_rules(line, content_rules, k) ==
    IF k > Len(content_rules) THEN "true"
    ELSE LET m == demo_check_line_against_rule(line, content_rules[k])
         IN  IF m = "true" THEN demo_all_rules(line, content_rules, k + 1) ELSE m

\* demo ContentRuleChecker._check_lines
RECURSIVE demo_check_lines(_, _, _)
demo_check_lines(lines, content_rules, i) ==
    IF i > Len(lines) THEN "false"
    ELSE LET lm == demo_all_rules(lines[i], content_rules, 1)
         IN  IF lm = "false" THEN demo_check_lines(lines, content_rules, i + 1) ELSE lm

\* demo ContentRuleChecker.read_and_check_file
demo_read_and_check_file(file, content_rules) ==
    IF ~file.readable THEN FALSE
    ELSE demo_check_lines(file.lines, content_rules, 1) = "true"

\* demo ContentRuleChecker.check_file_content: "final_result = all(results)"
demo_check_file_content(files, content_rules) ==
    IF files = <<>> THEN FALSE
    ELSE \A i \in 1..Len(files) : demo_read_and_check_file(files[i], content_rules)

\* ------------------------------------------------------------------------
\* Rule strings, as the parser reads them
\* ------------------------------------------------------------------------
\* One content predicate of a conjunction (a piece of part.split(' && ')):
\*   bang    - the piece starts with '!'
\*   pfx     - "r" for 'r:', "n" for 'n:', "none" for neither
\*   value   - the regex or literal text after the prefix ("" when empty)
\*   compare - a numeric piece holds ' compare ' after the regex
\*   op, num, numok - the comparison operator, the integer, and whether the
\*             text after the operator is digits only
Pred(bang, pfx, value, compare, op, num, numok) ==
    [bang |-> bang, pfx |-> pfx, value |-> value, compare |-> compare,
     op |-> op, num |-> num, numok |-> numok]

RegexPred(bang, value) == Pred(bang, "r", value, FALSE, "none", 0, FALSE)
LiteralPred(bang, value) == Pred(bang, "none", value, FALSE, "none", 0, FALSE)
NumericPred(bang, value, op, num) == Pred(bang, "n", value, TRUE, op, num, TRUE)

\* One piece of rule.split(' -> '). The code reads the same text in three
\* ways, by position: as a comma-separated target list (targets, stripped),
\* as an inner file spec or process name (bang, rx, text) and as a content
\* conjunction (preds).
Part(bang, rx, text, targets, preds) ==
    [bang |-> bang, rx |-> rx, text |-> text, targets |-> targets, preds |-> preds]

TargetsPart(targets) ==
    Part(FALSE, FALSE, targets[1], targets, <<LiteralPred(FALSE, targets[1])>>)
NamePart(bang, rx, text) ==
    Part(bang, rx, text, <<text>>,
         <<Pred(bang, IF rx THEN "r" ELSE "none", text, FALSE, "none", 0, FALSE)>>)
ContentPart(preds) ==
    Part(preds[1].bang, preds[1].pfx = "r", preds[1].value, <<preds[1].value>>, preds)

\* part.strip() == ""
IsBlank(part) == part.targets = <<"">>

\* A raw rule of a check: isstr is FALSE for a YAML value that is no string;
\* neg is the 'not ' prefix; tag is the text before the first ':'.
RawRule(isstr, neg, tag, parts) ==
    [isstr |-> isstr, neg |-> neg, tag |-> tag, parts |-> parts]

\* re.compile(regex) succeeds
is_valid_regex(regex) == regex \notin {"(", "["}

\* ------------------------------------------------------------------------
\* SemanticTreeBuilder: typed rules and diagnostics
\* ------------------------------------------------------------------------
\* ExecutionNode.to_dict(); "None" stands for Python's None
ExecutionNode(type, main_target, sub_target, target_pattern) ==
    [type |-> type, main_target |-> main_target, sub_target |-> sub_target,
     target_pattern |-> target_pattern]

\* FileRule / DirectoryRule / CommandRule / ProcessRule / RegistryRule as
\* dictionaries; a key the class does not have is the empty list, which is
\* what the executor's rule.get(key, []) reads.
TypedRule(execution_node, content_rules, file_rules, negation) ==
    [execution_node |-> execution_node, content_rules |-> content_rules,
     file_rules |-> file_rules, negation |-> negation]

\* SemanticTreeBuilder.add_error: the entry appended to self.errors
Diag(code, id, rule_number) == [code |-> code, id |-> id, rule_number |-> rule_number]

\* A parse step's outcome: ok is FALSE for a None return; errs are the
\* diagnostics it appended, in order.
Parsed(ok, rules, errs) == [ok |-> ok, rules |-> rules, errs |-> errs]

\* SemanticTreeBuilder._parse_numeric_rule
parse_numeric_rule(pred, id, index) ==
    IF ~(pred.compare /\ pred.op \in {"<", "<=", "==", "!=", ">=", ">"} /\ pred.numok)
    THEN Parsed(FALSE, <<>>, <<Diag("INVALID_COMPARE_EXPRESSION", id, index)>>)
    ELSE IF ~is_valid_regex(pred.value)
    THEN Parsed(FALSE, <<>>, <<Diag("INVALID_COMPARE_EXPRESSION", id, index)>>)
    ELSE Parsed(TRUE,
                <<ContentRule("n", pred.value, pred.op, pred.num, pred.bang)>>, <<>>)

\* One turn of the loop of parse_content_rule
parse_content_part(pred, caller, id, index) ==
    IF caller = "registry" /\ pred.value # "" /\ pred.pfx = "none"
    THEN Parsed(TRUE, <<ContentRule("none", pred.value, "none", 0, pred.bang)>>, <<>>)
    ELSE IF pred.pfx = "r"
    THEN IF is_valid_regex(pred.value)
         THEN Parsed(TRUE, <<ContentRule("r", pred.value, "none", 0, pred.bang)>>, <<>>)
         ELSE Parsed(FALSE, <<>>, <<Diag("INVALID_CONTENT_OPERATOR", id, index)>>)
    ELSE IF pred.pfx = "n"
    THEN parse_numeric_rule(pred, id, index)
    ELSE Parsed(FALSE, <<>>, <<Diag("INVALID_CONTENT_OPERATOR", id, index)>>)

\* SemanticTreeBuilder.parse_content_rule over preds[k..]: None at the first
\* piece that fails, else the ContentRules in order.
\* (a step that failed ends the walk: what follows it is not evaluated)
then_parsed(one, rest) ==
    IF ~one.ok THEN one
    ELSE IF ~rest.ok THEN rest
    ELSE Parsed(TRUE, one.rules \o rest.rules, <<>>)

RECURSIVE parse_content_rule(_, _, _, _, _)
parse_content_rule(preds, k, caller, id, index) ==
    IF k > Len(preds) THEN Parsed(TRUE, <<>>, <<>>)
    ELSE then_parsed(parse_content_part(preds[k], caller, id, index),
                     parse_content_rule(preds, k + 1, caller, id, index))

\* "if content_rules is None: self.add_error(code, ...); return None"
content_or_error(content, code, id, index) ==
    IF content.ok THEN content
    ELSE Parsed(FALSE, <<>>, Append(content.errs, Diag(code, id, index)))

\* The mutant of file_rule_of that leaves the negation flag off.
file_rule_of_unnegated(target, content, negation) ==
    IF ~content.ok THEN content
    ELSE Parsed(TRUE,
                <<TypedRule(ExecutionNode("f", target, "None", "None"),
                            content.rules, <<>>, FALSE)>>,
                <<>>)

\* The FileRule parse_file_rule makes for one target
file_rule_of(target, content, negation) ==
    IF ~content.ok THEN content
    ELSE Parsed(TRUE,
                <<TypedRule(ExecutionNode("f", target, "None", "None"),
                            content.rules, <<>>, negation)>>,
                <<>>)

\* The loop of parse_file_rule over file_targets[k..]; content is what
\* parse_content_rule returns for parts[1], with the error of its failure.
RECURSIVE parse_file_targets(_, _, _, _)
parse_file_targets(targets, k, content, negation) ==
    IF k > Len(targets) THEN Parsed(TRUE, <<>>, <<>>)
    ELSE IF targets[k] = "" THEN parse_file_targets(targets, k + 1, content, negation)
    ELSE then_parsed(file_rule_of(targets[k], content, negation),
                     parse_file_targets(targets, k + 1, content, negation))

\* SemanticTreeBuilder.parse_file_rule
parse_file_rule(parts, negation, id, index) ==
    IF Len(parts) = 0 \/ Len(parts) > 2 \/ IsBlank(parts[1])
    THEN Parsed(FALSE, <<>>, <<Diag("INVALID_FILE_RULE", id, index)>>)
    ELSE parse_file_targets(
            parts[1].targets, 1,
            IF Len(parts) = 2
            THEN content_or_error(parse_content_rule(parts[2].preds, 1, "file", id, index),
                                  "INVALID_FILE_RULE", id, index)
            ELSE Parsed(TRUE, <<>>, <<>>),
            negation)

\* The FileRule that parse_directory_rule embeds for the inner file spec
inner_file_rule(part, content_rules) ==
    TypedRule(IF part.rx THEN ExecutionNode("f", "None", "None", part.text)
                         ELSE ExecutionNode("f", part.text, "None", "None"),
              content_rules, <<>>, part.bang)

\* The DirectoryRule parse_directory_rule makes for one target
directory_rule_of(target, parts, content, negation) ==
    IF ~content.ok THEN content
    ELSE Parsed(TRUE,
                <<TypedRule(ExecutionNode("d", target, "None", "None"), <<>>,
                            IF Len(parts) > 1
                            THEN <<inner_file_rule(parts[2], content.rules)>>
                            ELSE <<>>,
                            negation)>>,
                <<>>)

\* The loop of parse_directory_rule over directory_targets[k..]; content is
\* what parse_content_rule returns for parts[2], with the error of its failure.
RECURSIVE parse_directory_targets(_, _, _, _, _)
parse_directory_targets(targets, k, parts, content, negation) ==
    IF k > Len(targets) THEN Parsed(TRUE, <<>>, <<>>)
    ELSE IF targets[k] = ""
    THEN parse_directory_targets(targets, k + 1, parts, content, negation)
    ELSE then_parsed(directory_rule_of(targets[k], parts, content, negation),
                     parse_directory_targets(targets, k + 1, parts, content, negation))

\* SemanticTreeBuilder.parse_directory_rule
parse_directory_rule(parts, negation, id, index) ==
    IF Len(parts) = 0 \/ IsBlank(parts[1])
    THEN Parsed(FALSE, <<>>, <<Diag("INVALID_DIRECTORY_RULE", id, index)>>)
    ELSE parse_directory_targets(
            parts[1].targets, 1, parts,
            IF Len(parts) > 2
            THEN content_or_error(parse_content_rule(parts[3].preds, 1, "directory", id, index),
                                  "INVALID_DIRECTORY_RULE", id, index)
            ELSE Parsed(TRUE, <<>>, <<>>),
            negation)

\* SemanticTreeBuilder.parse_command_rule (rules of at most three parts)
command_rule_of(main_target, content, negation) ==
    IF ~content.ok THEN content
    ELSE Parsed(TRUE,
                <<TypedRule(ExecutionNode("c", main_target, "None", "None"),
                            content.rules, <<>>, negation)>>,
                <<>>)

parse_command_rule(parts, negation, id, index) ==
    IF Len(parts) < 2
    THEN Parsed(FALSE, <<>>, <<Diag("INVALID_COMMAND_RULE", id, index)>>)
    ELSE command_rule_of(
            parts[1].text,
            then_parsed(parse_content_rule(parts[2].preds, 1, "command", id, index),
                        IF Len(parts) > 2
                        THEN content_or_error(
                                parse_content_rule(parts[3].preds, 1, "command", id, index),
                                "INVALID_COMMAND_RULE", id, index)
                        ELSE Parsed(TRUE, <<>>, <<>>)),
            negation)

\* SemanticTreeBuilder.parse_process_rule
parse_process_rule(parts, negation, id, index) ==
    Parsed(TRUE,
           <<TypedRule(IF parts[1].rx
                       THEN ExecutionNode("p", "None", "None", parts[1].text)
                       ELSE ExecutionNode("p", parts[1].text, "None", "None"),
                       <<>>, <<>>, negation)>>,
           <<>>)

\* SemanticTreeBuilder.parse_registry_rule (rules of at most three parts)
registry_rule_of(parts, content, negation) ==
    IF ~content.ok THEN content
    ELSE Parsed(TRUE,
                <<TypedRule(ExecutionNode("r", parts[1].text,
                                          IF Len(parts) > 1 THEN parts[2].text ELSE "None",
                                          "None"),
                            content.rules, <<>>, negation)>>,
                <<>>)

parse_registry_rule(parts, negation, id, index) ==
    registry_rule_of(
        parts,
        IF Len(parts) > 2
        THEN content_or_error(parse_content_rule(parts[3].preds, 1, "registry", id, index),
                              "INVALID_REGISTRY_RULE", id, index)
        ELSE Parsed(TRUE, <<>>, <<>>),
        negation)

\* SemanticTreeBuilder.parse_rule: a rule that is no string raises inside
\* the try (rule.startswith) and becomes UNKNOWN_ERROR.
parse_rule(rule, id, index) ==
    IF ~rule.isstr THEN Parsed(FALSE, <<>>, <<Diag("UNKNOWN_ERROR", id, index)>>)
    ELSE CASE rule.tag = "f" -> parse_file_rule(rule.parts, rule.neg, id, index)
           [] rule.tag = "d" -> parse_directory_rule(rule.parts, rule.neg, id, index)
           [] rule.tag = "c" -> parse_command_rule(rule.parts, rule.neg, id, index)
           [] rule.tag = "p" -> parse_process_rule(rule.parts, rule.neg, id, index)
           [] rule.tag = "r" -> parse_registry_rule(rule.parts, rule.neg, id, index)
           [] OTHER -> Parsed(FALSE, <<>>, <<Diag("UNKNOWN_RULE_TYPE", id, index)>>)

\* The mutant of walk_on that stops the walk at the first rule that fails.
walk_on_until_failure(one, rest) ==
    IF ~one.ok
    THEN [rules |-> <<>>, errs |-> one.errs, outcomes |-> <<"none">>]
    ELSE [rules |-> one.rules \o rest.rules,
          errs |-> one.errs \o rest.errs,
          outcomes |-> <<IF one.rules = <<>> THEN "empty" ELSE "rules">> \o rest.outcomes]

\* One turn of the loop of build_tree, then the turns after it
walk_on(one, rest) ==
    [rules |-> one.rules \o rest.rules,
     errs |-> one.errs \o rest.errs,
     outcomes |-> <<IF ~one.ok THEN "none"
                    ELSE IF one.rules = <<>> THEN "empty" ELSE "rules">>
                  \o rest.outcomes]

\* The loop of build_tree over rules[k..] (index is k, 1-based):
\*   rules    - parsed_rules, extended or appended to in order
\*   errs     - the diagnostics appended meanwhile
\*   outcomes - per raw rule, "rules" when parse_rule returned something
\*              truthy, "empty" for an empty list, "none" for None
RECURSIVE parse_rules(_, _, _)
parse_rules(rules, k, id) ==
    IF k > Len(rules) THEN [rules |-> <<>>, errs |-> <<>>, outcomes |-> <<>>]
    ELSE walk_on(parse_rule(rules[k], id, k), parse_rules(rules, k + 1, id))

\* A check handed to build_tree. mapping is FALSE for an object without
\* .get (None, a string, a list); id is [isint, v]; condition is "None"
\* when the key is missing; rules_is_list is FALSE for rules that cannot be
\* enumerated (an integer, None).
Check(mapping, id, condition, rules_is_list, rules) ==
    [mapping |-> mapping, id |-> id, condition |-> condition,
     rules_is_list |-> rules_is_list, rules |-> rules]

IntId(v) == [isint |-> TRUE, v |-> v]
NonIntId == [isint |-> FALSE, v |-> 0]

NoNode == [id |-> NonIntId, condition |-> "None", rules |-> <<>>]

\* The mutant of has_error_for_id that takes any diagnostic for one of `id`.
has_error_for_any_id(errs, id) == errs # <<>>

\* "if any(error for error in self.errors if error['id'] == id)"
has_error_for_id(errs, id) == \E i \in 1..Len(errs) : errs[i].id = id

\* The end of build_tree, after the walk `p` over the rules: the node is
\* withheld when self.errors holds an entry with this id.
node_or_none(obj, errs, p) ==
    IF has_error_for_id(errs \o p.errs, obj.id)
    THEN [kind |-> "none", node |-> NoNode, errors |-> errs \o p.errs,
          outcomes |-> p.outcomes]
    ELSE [kind |-> "node",
          node |-> [id |-> obj.id, condition |-> obj.condition, rules |-> p.rules],
          errors |-> errs \o p.errs, outcomes |-> p.outcomes]

\* SemanticTreeBuilder.build_tree on a builder holding `errs`:
\*   kind   - "node" (a ConditionNode), "none" (None) or "raise"
\*   errors - self.errors afterwards
\* An object without .get raises inside the try before `id` is bound, and
\* the handler's add_error(..., id, 0) then raises UnboundLocalError.
build_tree(obj, errs) ==
    IF ~obj.mapping
    THEN [kind |-> "raise", node |-> NoNode, errors |-> errs, outcomes |-> <<>>]
    ELSE IF ~obj.id.isint
    THEN [kind |-> "none", node |-> NoNode,
          errors |-> Append(errs, Diag("INVALID_ID", obj.id, 0)), outcomes |-> <<>>]
    ELSE IF obj.condition \notin {"all", "any", "none"}
    THEN [kind |-> "none", node |-> NoNode,
          errors |-> Append(errs, Diag("INVALID_CONDITION", obj.id, 0)), outcomes |-> <<>>]
    ELSE IF ~obj.rules_is_list
    THEN [kind |-> "none", node |-> NoNode,
          errors |-> Append(errs, Diag("UNKNOWN_ERROR", obj.id, 0)), outcomes |-> <<>>]
    ELSE node_or_none(obj, errs, parse_rules(obj.rules, 1, obj.id))

\* ------------------------------------------------------------------------
\* Sample rule strings
\* ------------------------------------------------------------------------
\* Rule strings of the policies used below, each as the parser splits it
SampleRule(text) ==
    CASE text = "f:/etc/hosts" ->
            RawRule(TRUE, FALSE, "f", <<TargetsPart(<<"/etc/hosts">>)>>)
      [] text = "not f:/etc/hosts" ->
            RawRule(TRUE, TRUE, "f", <<TargetsPart(<<"/etc/hosts">>)>>)
      [] text = "f:/a,/b -> r:a" ->
            RawRule(TRUE, FALSE, "f",
                    <<TargetsPart(<<"/a", "/b">>), ContentPart(<<RegexPred(FALSE, "a")>>)>>)
      [] text = "not f:/a,,/b -> r:a" ->   \* (an empty path between two)
            RawRule(TRUE, TRUE, "f",
                    <<TargetsPart(<<"/a", "", "/b">>), ContentPart(<<RegexPred(FALSE, "a")>>)>>)
      [] text = "f:/a -> n:a compare <= 4" ->   \* (a stands for a pattern with a group)
            RawRule(TRUE, FALSE, "f",
                    <<TargetsPart(<<"/a">>), ContentPart(<<NumericPred(FALSE, "a", "<=", 4)>>)>>)
      [] text = "f:/a -> n:a compare =< 4" ->
            RawRule(TRUE, FALSE, "f",
                    <<TargetsPart(<<"/a">>), ContentPart(<<NumericPred(FALSE, "a", "=<", 4)>>)>>)
      [] text = "f:/a -> n:( compare <= 4" ->
            RawRule(TRUE, FALSE, "f",
                    <<TargetsPart(<<"/a">>), ContentPart(<<NumericPred(FALSE, "(", "<=", 4)>>)>>)
      [] text = "f:/a -> n:MaxAuthTries compare <= 4" ->   \* (a pattern without a group)
            RawRule(TRUE, FALSE, "f",
                    <<TargetsPart(<<"/a">>),
                      ContentPart(<<NumericPred(FALSE, "MaxAuthTries", "<=", 4)>>)>>)
      [] text = "f:/a -> r:(" ->   \* (a regex that does not compile)
            RawRule(TRUE, FALSE, "f",
                    <<TargetsPart(<<"/a">>), ContentPart(<<RegexPred(FALSE, "(")>>)>>)
      [] text = "f:," ->   \* (every path empty)
            RawRule(TRUE, FALSE, "f", <<TargetsPart(<<"", "">>)>>)
      [] text = "x:foo" ->
            RawRule(TRUE, FALSE, "x", <<TargetsPart(<<"foo">>)>>)
      [] text = "42" ->   \* (the YAML integer 42: a rule that is no string)
            RawRule(FALSE, FALSE, "x", <<>>)
      [] text = "not p:telnetd" ->
            RawRule(TRUE, TRUE, "p", <<NamePart(FALSE, FALSE, "telnetd")>>)
      [] text = "c:sshd -T" ->   \* (no content layer)
            RawRule(TRUE, FALSE, "c", <<NamePart(FALSE, FALSE, "sshd -T")>>)
      [] text = "d:/etc" ->
            RawRule(TRUE, FALSE, "d", <<TargetsPart(<<"/etc">>)>>)
      [] text = "not d:/etc" ->
            RawRule(TRUE, TRUE, "d", <<TargetsPart(<<"/etc">>)>>)
      [] text = "d:/etc -> r:conf -> r:a" ->
            RawRule(TRUE, FALSE, "d",
                    <<TargetsPart(<<"/etc">>), NamePart(FALSE, TRUE, "conf"), ContentPart(<<RegexPred(FALSE, "a")>>)>>)
      [] text = "not d:/etc -> hosts -> !r:a" ->
            RawRule(TRUE, TRUE, "d",
                    <<TargetsPart(<<"/etc">>), NamePart(FALSE, FALSE, "hosts"), ContentPart(<<RegexPred(TRUE, "a")>>)>>)
      [] text = "d:/etc -> hosts -> r:a" ->
            RawRule(TRUE, FALSE, "d",
                    <<TargetsPart(<<"/etc">>), NamePart(FALSE, FALSE, "hosts"), ContentPart(<<RegexPred(FALSE, "a")>>)>>)
      [] text = "d:/etc -> !hosts -> r:a" ->
            RawRule(TRUE, FALSE, "d",
                    <<TargetsPart(<<"/etc">>), NamePart(TRUE, FALSE, "hosts"), ContentPart(<<RegexPred(FALSE, "a")>>)>>)
      [] text = "not d:/etc -> !hosts -> r:a" ->
            RawRule(TRUE, TRUE, "d",
                    <<TargetsPart(<<"/etc">>), NamePart(TRUE, FALSE, "hosts"), ContentPart(<<RegexPred(FALSE, "a")>>)>>)
      [] text = "p:sshd" ->
            RawRule(TRUE, FALSE, "p", <<NamePart(FALSE, FALSE, "sshd")>>)
      [] text = "p:r:ssh" ->
            RawRule(TRUE, FALSE, "p", <<NamePart(FALSE, TRUE, "ssh")>>)
      [] text = "c:sshd -T -> r:a" ->
            RawRule(TRUE, FALSE, "c",
                    <<NamePart(FALSE, FALSE, "sshd -T"), ContentPart(<<RegexPred(FALSE, "a")>>)>>)
      [] text = "not c:sshd -T -> n:a compare <= 4" ->
            RawRule(TRUE, TRUE, "c",
                    <<NamePart(FALSE, FALSE, "sshd -T"), ContentPart(<<NumericPred(FALSE, "a", "<=", 4)>>)>>)
      [] text = "r:HKLM -> Version -> r:a" ->
            RawRule(TRUE, FALSE, "r",
                    <<NamePart(FALSE, FALSE, "HKLM"), NamePart(FALSE, FALSE, "Version"), ContentPart(<<RegexPred(FALSE, "a")>>)>>)

\* The rules the builder is exercised with in rule lists of every length:
\* one that parses, one that fails with one diagnostic, one with two
BuilderRules ==
    {SampleRule(text) : text \in {"f:/etc/hosts", "x:foo", "f:/a -> r:("}}

\* and those it is exercised with one at a time
EdgeRules ==
    {SampleRule(text) :
        text \in {"f:/a,/b -> r:a", "not f:/a,,/b -> r:a", "f:,", "42",
                  "not p:telnetd", "c:sshd -T",
                  "f:/a -> n:a compare <= 4", "f:/a -> n:a compare =< 4",
                  "f:/a -> n:( compare <= 4", "f:/a -> n:MaxAuthTries compare <= 4"}}

\* ------------------------------------------------------------------------
\* The builder and the processor: one builder reused by every call
\* ------------------------------------------------------------------------
MaxRules == 2     \* raw rules of one check
MaxErrors == 2    \* calls are made while the builder holds fewer diagnostics
MaxChecks == 2    \* checks of one policy

SampleIds == {1, 2}

\* Checks build_tree is called with: well-formed ones over every rule list,
\* each edge rule alone and before a rule that parses, and each structural
\* problem once.
BuilderChecks ==
    {Check(TRUE, IntId(i), "all", TRUE, rs) :
        i \in SampleIds, rs \in SeqsUpTo(BuilderRules, MaxRules)}
    \cup {Check(TRUE, IntId(1), "any", TRUE, <<r>> \o rs) :
              r \in EdgeRules, rs \in {<<>>, <<SampleRule("f:/etc/hosts")>>}}
    \cup {Check(TRUE, NonIntId, "all", TRUE, <<SampleRule("f:/etc/hosts")>>),
          Check(TRUE, NonIntId, "xyz", TRUE, <<SampleRule("f:/etc/hosts")>>),
          Check(TRUE, IntId(1), "xyz", TRUE, <<SampleRule("f:/etc/hosts")>>),
          Check(TRUE, IntId(2), "None", TRUE, <<SampleRule("f:/etc/hosts")>>),
          Check(TRUE, IntId(1), "any", FALSE, <<>>),
          Check(FALSE, NonIntId, "None", FALSE, <<>>)}

\* The last call of build_tree, as its caller saw it:
\*   walked - the check passed the tests before the loop over its rules
\*   pre    - len(self.errors) when the call was made
\*   raw    - obj['rules']; rules - the rules of the node returned
\*   condition - obj['condition']
NoBuild ==
    [called |-> FALSE, mapping |-> TRUE, id |-> NonIntId, walked |-> FALSE,
     kind |-> "none", pre |-> 0, nraw |-> 0, outcomes |-> <<>>, nrules |-> 0,
     raw |-> <<>>, rules |-> <<>>, condition |-> "None"]

\* The tests of build_tree before its loop (lines 469-483)
reaches_walk(obj) ==
    /\ obj.mapping
    /\ obj.id.isint
    /\ obj.condition \in {"all", "any", "none"}
    /\ obj.rules_is_list

\* build_tree has returned (or raised) `r`
Returned(obj, r) ==
    /\ errors' = r.errors
    /\ bt' = [called |-> TRUE, mapping |-> obj.mapping, id |-> obj.id,
              walked |-> reaches_walk(obj), kind |-> r.kind, pre |-> Len(errors), nraw |-> Len(obj.rules),
              outcomes |-> r.outcomes, nrules |-> Len(r.node.rules),
              raw |-> obj.rules, rules |-> r.node.rules,
              condition |-> obj.condition]

\* tree = self.tree_builder.build_tree(obj)
BuildTreeCall(obj) ==
    /\ Len(errors) < MaxErrors
    /\ Returned(obj, build_tree(obj, errors))
    /\ UNCHANGED <<pr, verrors>>
    /\ UNCHANGED not_b

\* ScriptValidator.validate_script, the fields build_tree reads: the number
\* of entries it appends to the validator's errors for one check.
validate_script(check) ==
    (IF check.id.isint /\ check.id.v = 0 THEN 1 ELSE 0)
    + (IF check.condition \in {"None", ""} THEN 1 ELSE 0)
    + (IF check.rules_is_list /\ check.rules = <<>> THEN 1 ELSE 0)
    + (IF ~check.rules_is_list THEN 1 ELSE 0)

RECURSIVE validate_checks(_, _)
validate_checks(checks, k) ==
    IF k > Len(checks) THEN 0
    ELSE validate_script(checks[k]) + validate_checks(checks, k + 1)

\* ScriptValidator.validate_structure + validate_checks: entries appended
validate_file(checks) ==
    (IF checks = <<>> THEN 1 ELSE 0) + validate_checks(checks, 1)

\* The mutant of process_turn that drops a check without a tree and goes on.
process_turn_skipping(r, rest) ==
    IF r.kind = "raise"
    THEN [failed |-> TRUE, raised |-> TRUE, built |-> <<>>, errors |-> r.errors]
    ELSE IF r.kind = "none"
    THEN rest
    ELSE [failed |-> rest.failed, raised |-> rest.raised,
          built |-> IF rest.failed THEN <<>> ELSE <<r.node.id.v>> \o rest.built,
          errors |-> rest.errors]

\* One turn of the loop of ScriptProcessor.process, `r` being what
\* build_tree returned and `rest` the turns after it: the loop returns at
\* the first tree that is None.
\*   failed - a tree was None;  built - ids of the trees appended to results
process_turn(r, rest) ==
    IF r.kind = "raise"
    THEN [failed |-> TRUE, raised |-> TRUE, built |-> <<>>, errors |-> r.errors]
    ELSE IF r.kind = "none"
    THEN [failed |-> TRUE, raised |-> FALSE, built |-> <<>>, errors |-> r.errors]
    ELSE [failed |-> rest.failed, raised |-> rest.raised,
          built |-> IF rest.failed THEN <<>> ELSE <<r.node.id.v>> \o rest.built,
          errors |-> rest.errors]

\* The loop of ScriptProcessor.process over checks[k..] on a builder holding
\* `errs`
RECURSIVE process_checks(_, _, _)
process_checks(checks, k, errs) ==
    IF k > Len(checks)
    THEN [failed |-> FALSE, raised |-> FALSE, built |-> <<>>, errors |-> errs]
    ELSE process_turn(build_tree(checks[k], errs),
                      process_checks(checks, k + 1, build_tree(checks[k], errs).errors))

\* The last ScriptProcessor.executor call on the value process returned:
\* status is "success" or "error" (the dictionary returned) or "raise"
NoExecutorCall == [called |-> FALSE, status |-> "none", ids |-> <<>>]

NoProcess ==
    [called |-> FALSE, policy |-> <<>>, status |-> "none", code |-> "none",
     built |-> <<>>, details |-> <<>>, pre |-> 0, run |-> NoExecutorCall]

\* Checks of the policies process is called with: they pass validation,
\* except the last one (empty rules).
PolicyChecks ==
    {Check(TRUE, IntId(i), "all", TRUE, <<r>>) :
        i \in SampleIds, r \in {SampleRule("f:/etc/hosts"), SampleRule("x:foo")}}
    \cup {Check(TRUE, IntId(1), "all", TRUE, <<>>)}

Policies == SeqsUpTo(PolicyChecks, MaxChecks)

\* process has returned: `v` entries in the validator's errors, `r` the
\* outcome of the loop over the checks (not run when validation failed)
Processed(policy, v, r) ==
    IF v > 0
    THEN /\ verrors' = v
         /\ errors' = errors
         /\ pr' = [called |-> TRUE, policy |-> policy, status |-> "error",
                   code |-> "P001", built |-> <<>>, details |-> <<>>,
                   pre |-> Len(errors), run |-> NoExecutorCall]
    ELSE /\ verrors' = v
         /\ errors' = r.errors
         /\ pr' = [called |-> TRUE, policy |-> policy,
                   status |-> IF r.failed THEN "error" ELSE "json",
                   code |-> IF r.raised THEN "P004"
                            ELSE IF r.failed THEN "P002" ELSE "none",
                   built |-> r.built,
                   details |-> IF r.failed /\ ~r.raised THEN r.errors ELSE <<>>,
                   pre |-> Len(errors), run |-> NoExecutorCall]

\* json.dumps(value): a string that holds the value's JSON text
json_dumps(value) == [type |-> "str", json |-> value]

\* json.loads(text): the value of the text; a string inside it stays a string
json_loads(text) == text.json

\* SemanticTreeBuilder.tree_to_json(tree): a JSON string
tree_to_json(node) == json_dumps([type |-> "dict", node |-> node])

\* What process returns for a policy whose checks were all built:
\* json.dumps(results), results the list of the tree_to_json strings
process_value(policy) ==
    json_dumps([type |-> "list",
                items |-> [k \in 1..Len(policy) |->
                              tree_to_json(build_tree(policy[k], <<>>).node)]])

\* ScriptProcessor.process(file_content), the YAML already decoded to
\* `policy`: validation, then build_tree per check on the shared builder.
ProcessCall(policy) ==
    /\ Len(errors) < MaxErrors
    /\ verrors < MaxErrors
    /\ Processed(policy, verrors + validate_file(policy),
                 process_checks(policy, 1, errors))
    /\ UNCHANGED bt
    /\ UNCHANGED not_b

BuilderIdle ==
    /\ errors = <<>>
    /\ verrors = 0
    /\ bt = NoBuild
    /\ pr = NoProcess

\* ------------------------------------------------------------------------
\* SSHManager
\* ------------------------------------------------------------------------
\* self.client is "none" (None), "unconnected" (an SSHClient whose connect
\* raised) or "connected". The log of the calls made on the manager:
\*   calls  - how many calls were made
\*   op     - the last call; raised - it raised; prev - the call before it
\*   opened - SSHClient objects made; closed - client.close() calls made on one
\*   sent   - commands handed to client.exec_command that reached the host
NoCalls ==
    [calls |-> 0, op |-> "none", prev |-> "none", raised |-> FALSE,
     opened |-> 0, closed |-> 0, sent |-> 0]

\* SSHManager.connect: the SSHClient is assigned, then connected (ok) or the
\* connection raises
connect(c, log, ok) ==
    [client |-> IF ok THEN "connected" ELSE "unconnected",
     log |-> [log EXCEPT !.calls = @ + 1, !.op = "connect", !.prev = log.op, !.raised = ~ok,
                         !.opened = @ + 1]]

\* The mutant of execute_command that hands the command over without
\* looking at the client.
execute_command_unchecked(c, log) ==
    [client |-> c,
     log |-> [log EXCEPT !.calls = @ + 1, !.op = "execute_command", !.prev = log.op,
                         !.raised = FALSE, !.sent = @ + 1]]

\* SSHManager.execute_command: raises without a client; exec_command on a
\* client that never connected raises as well
execute_command(c, log) ==
    [client |-> c,
     log |-> [log EXCEPT !.calls = @ + 1, !.op = "execute_command", !.prev = log.op,
                         !.raised = (c # "connected"),
                         !.sent = @ + (IF c = "connected" THEN 1 ELSE 0)]]

\* The mutant of close that closes the client whether or not there is one.
close_unguarded(c, log) ==
    [client |-> "none",
     log |-> [log EXCEPT !.calls = @ + 1, !.op = "close", !.prev = log.op, !.raised = (c = "none"),
                         !.closed = @ + 1]]

\* SSHManager.close: "if self.client: self.client.close(); self.client = None"
close(c, log) ==
    [client |-> "none",
     log |-> [log EXCEPT !.calls = @ + 1, !.op = "close", !.prev = log.op, !.raised = FALSE,
                         !.closed = @ + (IF c # "none" THEN 1 ELSE 0)]]

\* n commands in a row on the manager
RECURSIVE execute_commands(_, _, _)
execute_commands(c, log, n) ==
    IF n = 0 THEN [client |-> c, log |-> log]
    ELSE execute_commands(c, execute_command(c, log).log, n - 1)

\* The manager after a call that left it as `m`
Managed(m) ==
    /\ client' = m.client
    /\ ssh' = m.log

\* ------------------------------------------------------------------------
\* ExecutionNodeExecutor: one probe on the host
\* ------------------------------------------------------------------------
\* What the host answers while one rule is executed:
\*   uname  - stdout of 'uname' ("Linux", "Other"), or "fail" when the
\*            command raises or exits non-zero
\*   out    - stdout (and stderr, for a command) of the rule's own probe:
\*            ls, ps | grep, the command, reg query
\*   exists - stdout of the file existence test
\*   files  - the file at the target of a file rule, or the files a listing
\*            found that the pattern keeps
Env(uname, out, exists, files) ==
    [uname |-> uname, out |-> out, exists |-> exists, files |-> files]

\* ExecutionResult: output is the command's text (lines) or paths (files)
Failure == [success |-> FALSE, lines |-> <<>>, files |-> <<>>]
Success(lines, files) == [success |-> TRUE, lines |-> lines, files |-> files]

\* "if self.sub_target or self.target_pattern"
has_extra_target(node) == node.sub_target # "None" \/ node.target_pattern # "None"

\* check_file_existence / list_files_with_pattern
probe_file(node, env) ==
    IF node.target_pattern # "None"
    THEN IF node.sub_target # "None" \/ env.files = <<>> THEN Failure
         ELSE Success(<<>>, env.files)
    ELSE IF node.sub_target # "None" \/ env.exists # "exists" THEN Failure
    ELSE Success(<<>>, IF env.files = <<>> THEN <<File(FALSE, <<>>)>>
                       ELSE <<env.files[1]>>)

\* check_directory_existence, check_process_existence
probe_presence(node, env) ==
    IF has_extra_target(node) \/ env.out = <<>> THEN Failure
    ELSE Success(<<>>, <<>>)

\* run_command: on an os_type other than linux `command` is unbound, which
\* raises inside the try
run_command(node, os_type, env) ==
    IF has_extra_target(node) \/ os_type # "linux" \/ env.out = <<>> THEN Failure
    ELSE Success(env.out, <<>>)

\* check_registry_key: the command builder raises unless os_type is windows
check_registry_key(node, os_type, env) ==
    IF os_type # "windows" \/ env.out = <<>> THEN Failure
    ELSE Success(env.out, <<>>)

\* determine_actual_os_type, when it does not raise
determine_actual_os_type(env) == IF env.uname = "Linux" THEN "linux" ELSE "windows"

\* ExecutionNodeExecutor.execute (through SemanticTreeExecutor._execute_node)
execute_node(node, os_type, env) ==
    IF env.uname = "fail" THEN Failure
    ELSE IF os_type # determine_actual_os_type(env) THEN Failure
    ELSE CASE node.type = "d" -> probe_presence(node, env)
           [] node.type = "f" -> probe_file(node, env)
           [] node.type = "c" -> run_command(node, os_type, env)
           [] node.type = "p" -> probe_presence(node, env)
           [] node.type = "r" -> check_registry_key(node, os_type, env)
           [] OTHER -> Failure

\* SemanticTreeExecutor._check_content_rules over ContentRuleChecker.check:
\* every exception is caught below it, so it returns a boolean.
check_content_rules(rule, output, rule_negation) ==
    CASE rule.execution_node.type = "c" ->
            check_lines(output.lines, rule.content_rules, rule_negation) = "true"
      [] rule.execution_node.type = "f" ->
            check_file_content(output.files, rule.content_rules, rule_negation)
      [] rule.execution_node.type \in {"d", "p"} -> TRUE
      [] OTHER -> FALSE

\* The mutant of file_rule_result that appends nothing for a failed probe.
file_rule_result_skipping(file_rule, execution_result, negation) ==
    IF ~execution_result.success THEN <<>>
    ELSE <<check_content_rules(file_rule, execution_result, negation)>>

\* One turn of the loop of _process_file_rules: what it appends
file_rule_result(file_rule, execution_result, negation) ==
    IF ~execution_result.success THEN <<FALSE>>
    ELSE <<check_content_rules(file_rule, execution_result, negation)>>

\* SemanticTreeExecutor._process_file_rules over file_rules[k..]
RECURSIVE process_file_rules(_, _, _, _, _)
process_file_rules(file_rules, k, os_type, negation, env) ==
    IF k > Len(file_rules) THEN <<>>
    ELSE file_rule_result(file_rules[k],
                          execute_node(file_rules[k].execution_node, os_type, env),
                          negation)
         \o process_file_rules(file_rules, k + 1, os_type, negation, env)

\* A command handed to execute_command_with_sudo: what it is for, the target
\* it names, and whether it carries the prefix
\* "export LC_ALL=C && echo <password> | sudo -S "
Command(kind, target, sudo) == [kind |-> kind, target |-> target, sudo |-> sudo]

\* The command of the probe of one node, were the OS test passed: the file,
\* directory and listing probes and run_command prefix it themselves,
\* whatever the os_type; execute_command_with_sudo is handed the manager as
\* os_type and adds nothing. run_command has no command unless os_type is
\* linux, the registry builder raises unless it is windows.
node_command(node, os_type) ==
    CASE node.type = "d" ->
            IF has_extra_target(node) THEN <<>>
            ELSE <<Command("directory", node.main_target, TRUE)>>
      [] node.type = "f" ->
            IF node.sub_target # "None" THEN <<>>
            ELSE IF node.target_pattern # "None"
            THEN <<Command("listing", node.main_target, TRUE)>>
            ELSE <<Command("file", node.main_target, TRUE)>>
      [] node.type = "c" ->
            IF has_extra_target(node) \/ os_type # "linux" THEN <<>>
            ELSE <<Command("command", node.main_target, TRUE)>>
      [] node.type = "p" ->
            IF has_extra_target(node) THEN <<>>
            ELSE <<Command("process", node.main_target, FALSE)>>
      [] node.type = "r" ->
            IF os_type # "windows" THEN <<>>
            ELSE <<Command("registry", node.main_target, FALSE)>>
      [] OTHER -> <<>>

\* The commands ExecutionNodeExecutor.execute sends: uname, unprefixed, then
\* the probe's command when the OS test is passed
probe_commands(node, os_type, env) ==
    <<Command("uname", "None", FALSE)>>
    \o (IF env.uname = "fail" \/ os_type # determine_actual_os_type(env)
        THEN <<>> ELSE node_command(node, os_type))

\* The commands of the content check of a rule whose probe gave `output`:
\* read_and_check_file reads each file, prefixed when os_type is linux
content_commands(rule, output, os_type) ==
    IF rule.execution_node.type = "f"
    THEN [i \in 1..Len(output.files) |->
             Command("read", rule.execution_node.main_target, os_type = "linux")]
    ELSE <<>>

\* One turn of the loop of _process_file_rules: the commands after the probe
file_rule_commands(file_rule, execution_result, os_type) ==
    IF ~execution_result.success THEN <<>>
    ELSE content_commands(file_rule, execution_result, os_type)

\* The commands of _process_file_rules over file_rules[k..]
RECURSIVE file_rules_commands(_, _, _, _)
file_rules_commands(file_rules, k, os_type, env) ==
    IF k > Len(file_rules) THEN <<>>
    ELSE probe_commands(file_rules[k].execution_node, os_type, env)
         \o file_rule_commands(file_rules[k],
                               execute_node(file_rules[k].execution_node, os_type, env),
                               os_type)
         \o file_rules_commands(file_rules, k + 1, os_type, env)

\* One turn of the loop of _execute_rules: the commands after the probe
after_probe_commands(rule, execution_result, os_type, env) ==
    IF ~execution_result.success THEN <<>>
    ELSE IF rule.execution_node.type = "d"
    THEN file_rules_commands(rule.file_rules, 1, os_type, env)
    ELSE content_commands(rule, execution_result, os_type)

\* Every command one turn of the loop of _execute_rules sends, in order
rule_commands(rule, os_type, env) ==
    probe_commands(rule.execution_node, os_type, env)
    \o after_probe_commands(rule,
                            execute_node(rule.execution_node, os_type, env),
                            os_type, env)

\* The mutant of rule_result that appends False for every failed probe.
rule_result_false_on_failure(rule, execution_result, os_type, env) ==
    IF ~execution_result.success THEN <<FALSE>>
    ELSE IF rule.execution_node.type = "d"
    THEN IF rule.file_rules # <<>>
         THEN process_file_rules(rule.file_rules, 1, os_type, rule.negation, env)
         ELSE <<TRUE>>
    ELSE <<check_content_rules(rule, execution_result, rule.negation)>>

\* One turn of the loop of _execute_rules, the probe done: what it appends
\* to (or extends) rule_results with
rule_result(rule, execution_result, os_type, env) ==
    IF ~execution_result.success THEN <<rule.negation>>
    ELSE IF rule.execution_node.type = "d"
    THEN IF rule.file_rules # <<>>
         THEN process_file_rules(rule.file_rules, 1, os_type, rule.negation, env)
         ELSE <<TRUE>>
    ELSE <<check_content_rules(rule, execution_result, rule.negation)>>

\* One turn of the loop of _execute_rules
execute_rule(rule, os_type, env) ==
    rule_result(rule, execute_node(rule.execution_node, os_type, env), os_type, env)

\* The mutant of evaluate_condition that reads 'none' as "not all".
evaluate_condition_not_all(condition, rule_results) ==
    CASE condition = "all" -> B3(\A i \in 1..Len(rule_results) : rule_results[i])
      [] condition = "any" -> B3(\E i \in 1..Len(rule_results) : rule_results[i])
      [] condition = "none" -> B3(~\A i \in 1..Len(rule_results) : rule_results[i])
      [] OTHER -> "None"

\* SemanticTreeExecutor._evaluate_condition: "true", "false" or "None"
evaluate_condition(condition, rule_results) ==
    CASE condition = "all" -> B3(\A i \in 1..Len(rule_results) : rule_results[i])
      [] condition = "any" -> B3(\E i \in 1..Len(rule_results) : rule_results[i])
      [] condition = "none" -> B3(~\E i \in 1..Len(rule_results) : rule_results[i])
      [] OTHER -> "None"

\* ------------------------------------------------------------------------
\* Sample hosts and trees for the executor
\* ------------------------------------------------------------------------
\* The hosts a rule is executed on: the target missing; present and empty;
\* present with content that matches "a", and that does not; present and not
\* readable; several files; a directory in which the listing finds nothing;
\* an existence test with unexpected output; a host that is not Linux; a
\* host on which 'uname' fails.
SampleEnvs ==
    { Env("Linux", <<>>, "not exists", <<>>),
      Env("Linux", <<>>, "exists", <<File(TRUE, <<>>)>>),
      Env("Linux", <<Line({"a"}, TRUE, 4)>>, "exists", <<File(TRUE, <<Line({"a"}, TRUE, 4)>>)>>),
      Env("Linux", <<Line({"b"}, FALSE, 0)>>, "exists", <<File(TRUE, <<Line({"b"}, FALSE, 0)>>)>>),
      Env("Linux", <<Line({"b"}, FALSE, 0)>>, "exists", <<File(FALSE, <<>>)>>),
      Env("Linux", <<Line({"b"}, FALSE, 0), Line({"a"}, TRUE, 4)>>, "exists", <<File(TRUE, <<Line({"b"}, FALSE, 0)>>), File(TRUE, <<Line({"a"}, TRUE, 4)>>)>>),
      Env("Linux", <<Line({"b"}, FALSE, 0)>>, "not exists", <<>>),
      Env("Linux", <<>>, "other", <<>>),
      Env("Other", <<Line({"a"}, TRUE, 4)>>, "exists", <<File(TRUE, <<Line({"a"}, TRUE, 4)>>)>>),
      Env("fail", <<>>, "other", <<>>) }

\* The rule lists of the checks the executor is run on
ExecRuleLists ==
    { <<>>,
      <<SampleRule("f:/etc/hosts")>>,
      <<SampleRule("not f:/etc/hosts")>>,
      <<SampleRule("f:/a,/b -> r:a")>>,
      <<SampleRule("d:/etc")>>,
      <<SampleRule("not d:/etc")>>,
      <<SampleRule("p:sshd"), SampleRule("d:/etc -> r:conf -> r:a")>>,
      <<SampleRule("not d:/etc -> hosts -> !r:a")>>,
      <<SampleRule("d:/etc -> hosts -> r:a")>>,
      <<SampleRule("d:/etc -> !hosts -> r:a")>>,
      <<SampleRule("not d:/etc -> !hosts -> r:a")>>,
      <<SampleRule("not p:telnetd")>>,
      <<SampleRule("p:r:ssh")>>,
      <<SampleRule("c:sshd -T -> r:a"), SampleRule("not c:sshd -T -> n:a compare <= 4")>>,
      <<SampleRule("r:HKLM -> Version -> r:a")>> }

\* A check of the semantic tree: build_tree's node for a raw check
node_of(id, condition, rules) ==
    build_tree(Check(TRUE, IntId(id), condition, TRUE, rules), <<>>).node

\* semantic_tree['checks']: one check under every condition, two checks with
\* different ids and with the same id, and a check whose condition is none
\* of the three (a tree that build_tree did not make), alone and after a
\* check that completes.
ExecTrees ==
    {<<node_of(1, c, rs)>> : c \in {"all", "any", "none"}, rs \in ExecRuleLists}
    \cup {<<node_of(1, "any", <<SampleRule("f:/etc/hosts")>>),
             node_of(i, "all", <<SampleRule("not p:telnetd")>>)>> :
              i \in SampleIds}
    \cup {<<[node_of(1, "all", <<SampleRule("p:sshd")>>) EXCEPT !.condition = "xyz"]>>,
          <<node_of(1, "any", <<SampleRule("f:/etc/hosts")>>),
            [node_of(2, "all", <<SampleRule("p:sshd")>>) EXCEPT !.condition = "xyz"]>>}

\* ------------------------------------------------------------------------
\* SemanticTreeExecutor.execute_tree, one step per probed rule
\* ------------------------------------------------------------------------
\*   pc           - "idle", "check" (in the loop over checks), "returned"
\*   ci, ri       - the check being executed and its next rule (1-based)
\*   rule_results - of the check being executed
\*   owners       - for each entry of rule_results, the rule that appended it
\*   results      - the dictionary results: check_id -> stored entry
\*   ret          - the SemanticTreeExecutionResult: "none" before the return,
\*                  then "success" or the error
\*   ret_results  - the results of the SemanticTreeExecutionResult returned
\*                  (the constructor's default is the empty dictionary)
\*   last         - the rule executed last, the host's answers, what it
\*                  appended, the commands it sent and the client they were
\*                  sent on
NoRule == TypedRule(ExecutionNode("None", "None", "None", "None"), <<>>, <<>>, FALSE)

NoRun ==
    [pc |-> "idle", tree |-> <<>>, os_type |-> "linux", ci |-> 0, ri |-> 0,
     rule_results |-> <<>>, owners |-> <<>>, results |-> <<>>, ret |-> "none",
     ret_results |-> <<>>,
     last |-> [called |-> FALSE, rule |-> NoRule, env |-> Env("Linux", <<>>, "not exists", <<>>), out |-> <<>>,
               cmds |-> <<>>, on |-> "none"]]

ExecutorIdle ==
    /\ client = "none"
    /\ ssh = NoCalls
    /\ ex = NoRun

\* execute_tree(semantic_tree), the connection established
ExecuteTree(tree, os_type) ==
    /\ ex.pc = "idle"
    /\ Managed(connect(client, ssh, TRUE))
    /\ ex' = [ex EXCEPT !.pc = "check", !.tree = tree, !.os_type = os_type,
                        !.ci = 1, !.ri = 1]
    /\ UNCHANGED not_e

\* execute_tree(semantic_tree), SSHManager.connect raising: the client
\* object is assigned before the connection is attempted
ConnectFails(tree, os_type) ==
    /\ ex.pc = "idle"
    /\ Managed(connect(client, ssh, FALSE))
    /\ ex' = [ex EXCEPT !.pc = "returned", !.tree = tree, !.os_type = os_type,
                        !.ret = "Failed to connect to SSH"]
    /\ UNCHANGED not_e

\* rule_results after one more turn of the loop of _execute_rules, which
\* sent `cmds`
Appended(rule, env, out, cmds) ==
    /\ ex' = [ex EXCEPT !.ri = ex.ri + 1,
                        !.rule_results = ex.rule_results \o out,
                        !.owners = ex.owners \o [i \in 1..Len(out) |-> ex.ri],
                        !.last = [called |-> TRUE, rule |-> rule, env |-> env,
                                  out |-> out, cmds |-> cmds, on |-> client]]
    /\ Managed(execute_commands(client, ssh, Len(cmds)))

\* One turn of the loop of _execute_rules on the host answering `env`
ExecuteRule(env) ==
    /\ ex.pc = "check"
    /\ ex.ci <= Len(ex.tree)
    /\ ex.ri <= Len(ex.tree[ex.ci].rules)
    /\ Appended(ex.tree[ex.ci].rules[ex.ri], env,
                execute_rule(ex.tree[ex.ci].rules[ex.ri], ex.os_type, env),
                rule_commands(ex.tree[ex.ci].rules[ex.ri], ex.os_type, env))
    /\ UNCHANGED not_e

\* The end of one turn of the loop over checks: check_pass is `verdict`
Stored(check, verdict) ==
    IF verdict = "None"
    THEN /\ Managed(close(client, ssh))
         /\ ex' = [ex EXCEPT !.pc = "returned", !.ret = "Invalid condition",
                             !.ret_results = <<>>]
    ELSE /\ UNCHANGED <<client, ssh>>
         /\ ex' = [ex EXCEPT
                     !.ci = ex.ci + 1, !.ri = 1, !.rule_results = <<>>,
                     !.owners = <<>>,
                     !.results =
                        (check.id.v :>
                            [result |-> IF verdict = "true" THEN "pass" ELSE "fail",
                             condition |-> check.condition,
                             rule_results |-> ex.rule_results])
                        @@ ex.results]

\* _execute_rules has returned the list: evaluate and store, or abort
EvaluateCheck ==
    /\ ex.pc = "check"
    /\ ex.ci <= Len(ex.tree)
    /\ ex.ri > Len(ex.tree[ex.ci].rules)
    /\ Stored(ex.tree[ex.ci],
              evaluate_condition(ex.tree[ex.ci].condition, ex.rule_results))
    /\ UNCHANGED not_e

\* The loop over checks is over: close and return the results
ReturnResults ==
    /\ ex.pc = "check"
    /\ ex.ci > Len(ex.tree)
    /\ Managed(close(client, ssh))
    /\ ex' = [ex EXCEPT !.pc = "returned", !.ret = "success",
                        !.ret_results = ex.results]
    /\ UNCHANGED not_e

\* ------------------------------------------------------------------------
\* The SSHManager on its own: any sequence of calls
\* ------------------------------------------------------------------------
MaxCalls == 5     \* calls made on one manager

\* ssh_manager.connect(), succeeding or raising
SSHConnect(ok) ==
    /\ ssh.calls < MaxCalls
    /\ Managed(connect(client, ssh, ok))
    /\ UNCHANGED ex
    /\ UNCHANGED not_e

\* ssh_manager.execute_command(command)
SSHExecuteCommand ==
    /\ ssh.calls < MaxCalls
    /\ Managed(execute_command(client, ssh))
    /\ UNCHANGED ex
    /\ UNCHANGED not_e

\* ssh_manager.close()
SSHClose ==
    /\ ssh.calls < MaxCalls
    /\ Managed(close(client, ssh))
    /\ UNCHANGED ex
    /\ UNCHANGED not_e

\* ------------------------------------------------------------------------
\* The content matcher on its own: inputs drawn in Init, one call per action
\* ------------------------------------------------------------------------
\* Files on a host: one that cannot be read, an empty one, and three with
\* content.
SampleFiles ==
    { File(FALSE, <<>>),
      File(TRUE, <<>>),
      File(TRUE, <<Line({"a"}, TRUE, 4)>>),
      File(TRUE, <<Line({"a"}, FALSE, 0)>>),
      File(TRUE, <<Line({"b"}, FALSE, 0), Line({"a", "b"}, TRUE, 6)>>) }

\* What a probe hands to the matcher: one readable file of any body, or a
\* list of discovered files.
MatcherFiles ==
    {<<File(TRUE, b)>> : b \in Bodies} \cup SeqsUpTo(SampleFiles, MaxFiles)

NoCall == [op |-> "none", res |-> "none"]

MatcherIdle ==
    /\ cm_files = <<>>
    /\ cm_rules = <<>>
    /\ cm_neg = FALSE
    /\ cm_out = NoCall

\* The demo API before any request
MaxRequests == 3

\* The bodies /audit/execute is called with: `ssh_info` and `scripts` say
\* whether the field is there, `condition` and `rules` are those of
\* scripts[0] ("None" and FALSE for a missing one)
AuditRequest(ssh_info, scripts, condition, has_rules) ==
    [ssh_info |-> ssh_info, scripts |-> scripts, condition |-> condition,
     has_rules |-> has_rules]

AuditRequests ==
    {AuditRequest(TRUE, TRUE, "all", TRUE), AuditRequest(TRUE, TRUE, "xyz", TRUE),
     AuditRequest(FALSE, TRUE, "all", TRUE), AuditRequest(TRUE, FALSE, "None", FALSE),
     AuditRequest(TRUE, TRUE, "None", TRUE), AuditRequest(TRUE, TRUE, "all", FALSE)}

\* A request that is not being handled
NoRequest == [pc |-> "idle", task_id |-> 0, condition |-> "None", ret |-> "none"]

NoQuery == [called |-> FALSE, status |-> "none", task_id |-> 0, stored |-> {}]

\* The module after import: current_id = 0, no result file written
ApiIdle ==
    api = [current_id |-> 0, reqs |-> [r \in 1..MaxRequests |-> NoRequest],
           results |-> {}, query |-> NoQuery]

MatcherInit ==
    /\ BuilderIdle
    /\ ExecutorIdle
    /\ ApiIdle
    /\ cm_files \in MatcherFiles
    /\ cm_rules \in ContentRuleLists
    /\ cm_neg \in BOOLEAN
    /\ cm_out = NoCall

\* checker._check_lines(lines) on the first file's body
CallCheckLines ==
    /\ cm_out = NoCall
    /\ cm_files # <<>>
    /\ cm_files[1].readable
    /\ cm_out' = [op |-> "_check_lines",
                  res |-> check_lines(cm_files[1].lines, cm_rules, cm_neg)]
    /\ UNCHANGED <<cm_files, cm_rules, cm_neg>>
    /\ UNCHANGED not_cm

\* checker.read_and_check_file(path) on the first file
CallReadAndCheckFile ==
    /\ cm_out = NoCall
    /\ cm_files # <<>>
    /\ cm_out' = [op |-> "read_and_check_file",
                  res |-> B3(read_and_check_file(cm_files[1], cm_rules, cm_neg))]
    /\ UNCHANGED <<cm_files, cm_rules, cm_neg>>
    /\ UNCHANGED not_cm

\* checker.check_file_content(list of the discovered files), core executor
CallCheckFileContent ==
    /\ cm_out = NoCall
    /\ cm_out' = [op |-> "check_file_content",
                  res |-> B3(check_file_content(cm_files, cm_rules, cm_neg))]
    /\ UNCHANGED <<cm_files, cm_rules, cm_neg>>
    /\ UNCHANGED not_cm

\* checker.check_file_content(list of the discovered files), demo executor
CallDemoCheckFileContent ==
    /\ cm_out = NoCall
    /\ cm_out' = [op |-> "demo_check_file_content",
                  res |-> B3(demo_check_file_content(cm_files, cm_rules))]
    /\ UNCHANGED <<cm_files, cm_rules, cm_neg>>
    /\ UNCHANGED not_cm

MatcherNext ==
    \/ CallCheckLines
    \/ CallReadAndCheckFile
    \/ CallCheckFileContent
    \/ CallDemoCheckFileContent

SpecMatcher == MatcherInit /\ [][MatcherNext]_vars

\* ------------------------------------------------------------------------
\* The builder and the processor on their own
\* ------------------------------------------------------------------------
BuilderInit ==
    /\ MatcherIdle
    /\ BuilderIdle
    /\ ExecutorIdle
    /\ ApiIdle

BuilderNext == \E obj \in BuilderChecks : BuildTreeCall(obj)

SpecBuilder == BuilderInit /\ [][BuilderNext]_vars

\* The processor, which owns its builder and its validator
\* The loop of execute_tree over checks[k..] on a host answering `env` to
\* every probe: the ids stored, or "error" at an invalid condition
RECURSIVE run_checks(_, _, _, _)
run_checks(checks, k, os_type, env) ==
    IF k > Len(checks) THEN [status |-> "success", ids |-> <<>>]
    ELSE IF checks[k].condition \notin {"all", "any", "none"}
    THEN [status |-> "error", ids |-> <<>>]
    ELSE [status |-> run_checks(checks, k + 1, os_type, env).status,
          ids |-> IF run_checks(checks, k + 1, os_type, env).status = "error"
                  THEN <<>>
                  ELSE <<checks[k].id.v>> \o run_checks(checks, k + 1, os_type, env).ids]

\* SemanticTreeExecutor.execute_tree(semantic_tree) after the connect:
\* semantic_tree.get raises on anything but a dictionary
execute_tree(semantic_tree, env) ==
    IF semantic_tree.type # "dict"
    THEN [called |-> TRUE, status |-> "raise", ids |-> <<>>]
    ELSE [called |-> TRUE,
          status |-> run_checks(semantic_tree.checks, 1, "linux", env).status,
          ids |-> run_checks(semantic_tree.checks, 1, "linux", env).ids]

\* ScriptProcessor.executor(tree_json, ssh_details) on a host that accepts
\* the connection, through a SemanticTreeExecutor of its own: an exception of execute_tree reaches the clause
\* "except SemanticTreeError", which names an Enum and raises TypeError
ExecutorCall(env) ==
    /\ pr.called
    /\ pr.status = "json"
    /\ ~pr.run.called
    /\ Managed(connect("none", NoCalls, TRUE))
    /\ pr' = [pr EXCEPT !.run = execute_tree(json_loads(process_value(pr.policy)), env)]
    /\ UNCHANGED <<errors, verrors, bt, ex>>
    /\ UNCHANGED <<cmvars, avars>>

ProcessorNext ==
    \/ \E policy \in Policies : ProcessCall(policy)
    \/ \E env \in SampleEnvs : ExecutorCall(env)

SpecProcessor == BuilderInit /\ [][ProcessorNext]_vars

\* ------------------------------------------------------------------------
\* The executor on its own
\* ------------------------------------------------------------------------
ExecutorNext ==
    \/ \E tree \in ExecTrees, os_type \in {"linux", "windows"} :
            \/ ExecuteTree(tree, os_type)
            \/ ConnectFails(tree, os_type)
    \/ \E env \in SampleEnvs : ExecuteRule(env)
    \/ EvaluateCheck
    \/ ReturnResults

SpecExecutor == BuilderInit /\ [][ExecutorNext]_vars

SSHNext ==
    \/ \E ok \in BOOLEAN : SSHConnect(ok)
    \/ SSHExecuteCommand
    \/ SSHClose

SpecSSH == BuilderInit /\ [][SSHNext]_vars

\* ------------------------------------------------------------------------
\* The demo API (api_v1.py): /audit/execute and /audit/result
\* ------------------------------------------------------------------------
\* generate_unique_id()
generate_unique_id(current_id) == current_id + 1

\* get_current_id()
get_current_id(current_id) == current_id

\* execute_audit up to its await: the id is taken, then the request is
\* answered with an error if a field is missing, else the handler suspends
\* in run_in_executor while build_tree runs
ExecuteAuditStart(r, body) ==
    /\ api.reqs[r].pc = "idle"
    /\ api' = [api EXCEPT
                 !.current_id = generate_unique_id(api.current_id),
                 !.reqs[r] =
                     IF ~body.ssh_info \/ ~body.scripts
                        \/ body.condition = "None" \/ ~body.has_rules
                     THEN [pc |-> "done",
                           task_id |-> generate_unique_id(api.current_id),
                           condition |-> body.condition, ret |-> "error"]
                     ELSE [pc |-> "building",
                           task_id |-> generate_unique_id(api.current_id),
                           condition |-> body.condition, ret |-> "none"]]
    /\ UNCHANGED not_a

\* execute_audit from its await to its return: no tree is an error; else the
\* tree is executed and <task_id>_result.json is written, whether the
\* execution succeeded or not
ExecuteAuditResume(r) ==
    /\ api.reqs[r].pc = "building"
    /\ api' = IF build_tree(Check(TRUE, IntId(api.reqs[r].task_id),
                                  api.reqs[r].condition, TRUE,
                                  <<SampleRule("f:/etc/hosts")>>), <<>>).kind # "node"
              THEN [api EXCEPT !.reqs[r].pc = "done", !.reqs[r].ret = "error"]
              ELSE [api EXCEPT !.reqs[r].pc = "done", !.reqs[r].ret = "success",
                               !.results = @ \cup {api.reqs[r].task_id}]
    /\ UNCHANGED not_a

\* query_audit_results(): the result file of get_current_id(), if it exists
QueryAuditResults ==
    /\ api' = [api EXCEPT !.query =
                 [called |-> TRUE,
                  status |-> IF get_current_id(api.current_id) \in api.results
                             THEN "result" ELSE "not_found",
                  task_id |-> get_current_id(api.current_id),
                  stored |-> api.results]]
    /\ UNCHANGED not_a

ApiNext ==
    \/ \E r \in 1..MaxRequests, body \in AuditRequests : ExecuteAuditStart(r, body)
    \/ \E r \in 1..MaxRequests : ExecuteAuditResume(r)
    \/ QueryAuditResults

SpecApi == BuilderInit /\ [][ApiNext]_vars

\* ------------------------------------------------------------------------
\* Claims on the content matcher (checked under SpecMatcher)
\* ------------------------------------------------------------------------
\* The contract of the matcher, stated with quantifiers: some line on which
\* every content rule, its own negation applied, matches.
BodyMatches(lines, content_rules) ==
    \E i \in 1..Len(lines) :
        \A k \in 1..Len(content_rules) :
            (does_line_match_rule(lines[i], content_rules[k]) = "true")
                # content_rules[k].negation

C16_NumericFailureIsFalse ==
    (/\ cm_out.op = "_check_lines"
     /\ \E k \in 1..Len(cm_rules) : cm_rules[k].content_operator = "n")
        => cm_out.res = B3(BodyMatches(cm_files[1].lines, cm_rules) # cm_neg)

\* C9: for a readable file with an empty body, read_and_check_file answers
\* (no content rules) with rule-level negation then applied.
C9_EmptyBodyThenNegation ==
    (/\ cm_out.op = "read_and_check_file"
     /\ cm_files[1].readable
     /\ cm_files[1].lines = <<>>)
        => cm_out.res = B3((cm_rules = <<>>) # cm_neg)

\* C10: in the core executor and in the demo executor, check_file_content
\* over the discovered files succeeds iff at least one file matches; a file
\* that cannot be read does not match.
C10_ExistentialOverFiles ==
    /\ cm_out.op = "check_file_content"
        => cm_out.res = B3(\E i \in 1..Len(cm_files) :
                               read_and_check_file(cm_files[i], cm_rules, cm_neg))
    /\ cm_out.op = "demo_check_file_content"
        => cm_out.res = B3(\E i \in 1..Len(cm_files) :
                               demo_read_and_check_file(cm_files[i], cm_rules))

\* ------------------------------------------------------------------------
\* Claims on the builder (checked under SpecBuilder)
\* ------------------------------------------------------------------------
\* The diagnostics the last build_tree call appended carry its id
ParseProducedDiagnostic ==
    \E i \in (bt.pre + 1)..Len(errors) : errors[i].id = bt.id

\* C4: after any earlier calls on the same builder, build_tree returns a
\* ConditionNode iff this parse produced no diagnostic tagged with its id.
C4_NodeIffCleanParse ==
    (bt.called /\ bt.kind # "raise")
        => ((bt.kind = "node") <=> ~ParseProducedDiagnostic)

\* build_tree has returned the node of a check whose only rule is a file
\* rule: the node's rules are what parse_file_rule emitted for it
BuiltOneFileRule ==
    /\ bt.called
    /\ bt.kind = "node"
    /\ bt.nraw = 1
    /\ bt.raw[1].isstr
    /\ bt.raw[1].tag = "f"

\* The paths of a file rule that are not empty, in the order written
NonEmptyPaths(raw) == SelectSeq(raw.parts[1].targets, LAMBDA t : t # "")

\* C18: a file rule 'f:p1,...,pn [ -> content]' emits one FileRule per
\* non-empty path, in the order written, each with that path as its one
\* main_target, each with the same content predicates (one per predicate
\* written, none without a content part) and the rule-level negation.
C18_OneFileRulePerPath ==
    BuiltOneFileRule
        => /\ Len(bt.rules) = Len(NonEmptyPaths(bt.raw[1]))
           /\ \A i \in 1..Len(bt.rules) :
                /\ bt.rules[i].execution_node
                      = ExecutionNode("f", NonEmptyPaths(bt.raw[1])[i], "None", "None")
                /\ bt.rules[i].negation = bt.raw[1].neg
                /\ bt.rules[i].file_rules = <<>>
                /\ bt.rules[i].content_rules = bt.rules[1].content_rules
                /\ Len(bt.rules[i].content_rules)
                      = IF Len(bt.raw[1].parts) = 2
                        THEN Len(bt.raw[1].parts[2].preds) ELSE 0

\* C18 witness: 'not f:/a,,/b -> r:a' was parsed: three paths written, one
\* of them empty, two FileRules emitted, negated, with the content predicate.
C18_Witness ==
    /\ BuiltOneFileRule
    /\ bt.raw[1].neg
    /\ Len(bt.raw[1].parts[1].targets) = 3
    /\ Len(bt.rules) = 2
    /\ bt.rules[2].execution_node.main_target = "/b"
    /\ Len(bt.rules[2].content_rules) = 1

\* The last call of build_tree appended a diagnostic with this code under the
\* id of its check
Emitted(code) ==
    \E i \in (bt.pre + 1)..Len(errors) :
        errors[i].code = code /\ errors[i].id = bt.id

\* C19: for every combination of a valid or invalid id and a valid or
\* invalid condition, build_tree emits INVALID_ID when the id is no integer,
\* INVALID_CONDITION when the condition is none of all, any, none, and
\* returns no ConditionNode in either case.
C19_IdAndConditionDiagnosed ==
    (bt.called /\ bt.mapping)
        => /\ ~bt.id.isint => Emitted("INVALID_ID")
           /\ bt.condition \notin {"all", "any", "none"} => Emitted("INVALID_CONDITION")
           /\ (~bt.id.isint \/ bt.condition \notin {"all", "any", "none"})
                 => bt.kind = "none"

\* The diagnostics of check-level problems
CheckLevelCodes == {"INVALID_ID", "INVALID_CONDITION"}

\* The last call of build_tree failed with a problem of its own check
BuildFailed ==
    /\ bt.called
    /\ bt.mapping
    /\ bt.kind = "none"
    /\ Len(errors) > bt.pre

\* Every diagnostic the last call recorded carries the id of its check and
\* rule_number 0 for an id or condition problem, the 1-based index of a rule
\* that failed to parse otherwise
NewDiagnosticsLabelled ==
    \A i \in (bt.pre + 1)..Len(errors) :
        /\ errors[i].id = bt.id
        /\ errors[i].code \in CheckLevelCodes => errors[i].rule_number = 0
        /\ bt.walked
              => /\ errors[i].rule_number \in 1..bt.nraw
                 /\ bt.outcomes[errors[i].rule_number] = "none"

\* The rule_number of the earliest problem of the last check: 0 for a
\* check-level problem, else the index of the first rule that failed
EarliestProblem ==
    IF ~bt.walked THEN 0
    ELSE CHOOSE k \in 1..bt.nraw :
            /\ bt.outcomes[k] = "none"
            /\ \A j \in 1..(k - 1) : bt.outcomes[j] # "none"

\* The first diagnostic recorded under the id of the last check
FirstUnderId ==
    errors[CHOOSE i \in 1..Len(errors) :
               /\ errors[i].id = bt.id
               /\ \A j \in 1..(i - 1) : errors[j].id # bt.id]

\* C20: every diagnostic carries the id of the check being built and the
\* rule_number of its problem (0 for id and condition, the 1-based index of
\* the offending rule otherwise), and for a failing check the first
\* diagnostic recorded under its id is that of its earliest problem.
C20_DiagnosticsLabelled ==
    /\ (bt.called /\ bt.mapping) => NewDiagnosticsLabelled
    /\ BuildFailed
          => /\ FirstUnderId.rule_number = EarliestProblem
             /\ FirstUnderId.code = errors[bt.pre + 1].code

\* build_tree has walked a check whose only rule is a file rule with one
\* content predicate, a numeric one
BuiltOneNumericPredicate ==
    /\ bt.called
    /\ bt.walked
    /\ bt.nraw = 1
    /\ bt.raw[1].isstr
    /\ bt.raw[1].tag = "f"
    /\ Len(bt.raw[1].parts) = 2
    /\ Len(bt.raw[1].parts[2].preds) = 1
    /\ bt.raw[1].parts[2].preds[1].pfx = "n"

\* re.compile(regex).groups > 0, for the patterns of the sample rules
has_capture_group(regex) == regex \notin {"MaxAuthTries"}

\* C25: a numeric predicate is accepted only if its operator is one of the
\* six, its regex compiles and its regex has a capture group; any other one
\* produces INVALID_COMPARE_EXPRESSION and no ConditionNode is returned.
C25_NumericPredicateAccepted ==
    BuiltOneNumericPredicate
        => IF /\ bt.raw[1].parts[2].preds[1].compare
              /\ bt.raw[1].parts[2].preds[1].numok
              /\ bt.raw[1].parts[2].preds[1].op \in {"<", "<=", "==", "!=", ">=", ">"}
              /\ is_valid_regex(bt.raw[1].parts[2].preds[1].value)
              /\ has_capture_group(bt.raw[1].parts[2].preds[1].value)
           THEN bt.outcomes = <<"rules">>
           ELSE /\ bt.outcomes = <<"none">>
                /\ Emitted("INVALID_COMPARE_EXPRESSION")
                /\ bt.kind = "none"

\* C28: on a builder used for one check after another, no call removes or
\* rewrites a diagnostic, and build_tree withholds the node of a check only
\* when a diagnostic is recorded under that check's own id.
C28_GrowsAndScopedById ==
    [][ /\ Len(errors') >= Len(errors)
        /\ SubSeq(errors', 1, Len(errors)) = errors
        /\ (bt'.called /\ bt'.walked /\ bt'.kind = "none")
              => \E i \in 1..Len(errors') : errors'[i].id = bt'.id ]_vars

\* C28 witness: the builder holds diagnostics, all of them under other ids,
\* and the last call returned the node of its check.
C28_Witness ==
    /\ bt.called
    /\ bt.kind = "node"
    /\ errors # <<>>
    /\ \A i \in 1..Len(errors) : errors[i].id # bt.id

\* C6: a rule that fails to parse does not stop the walk: every rule of the
\* check is parsed, and every failing rule at position k has a diagnostic
\* (id, k) among those the call recorded.
C6_WalkGoesOn ==
    (bt.called /\ bt.walked)
        => /\ Len(bt.outcomes) = bt.nraw
           /\ \A k \in 1..Len(bt.outcomes) :
                  bt.outcomes[k] = "none"
                      => \E i \in (bt.pre + 1)..Len(errors) :
                             /\ errors[i].id = bt.id
                             /\ errors[i].rule_number = k

\* C6 witness: the first of two rules failed, the second was parsed into a
\* typed rule, and the call returned None.
C6_Witness ==
    /\ bt.called
    /\ bt.walked
    /\ bt.kind = "none"
    /\ bt.outcomes = <<"none", "rules">>

\* C7: build_tree never raises: every call returns a ConditionNode or None.
C7_NeverRaises ==
    bt.called => bt.kind \in {"node", "none"}

\* ------------------------------------------------------------------------
\* Claims on the processor (checked under SpecProcessor)
\* ------------------------------------------------------------------------
\* A check whose rules produce a parse diagnostic on a fresh builder
ProducesDiagnostic(check) == build_tree(check, <<>>).errors # <<>>

\* The ids of the checks of a policy that produce no diagnostic, in order
CleanIds(policy) ==
    LET clean == SelectSeq(policy, LAMBDA c : ~ProducesDiagnostic(c))
    IN  [i \in 1..Len(clean) |-> clean[i].id.v]

\* C5 as stated: a check with a diagnostic is dropped, every other check of
\* the policy is built into the returned tree.
C5_DropsAndContinues ==
    (pr.called /\ pr.code # "P001")
        => /\ pr.status = "json"
           /\ pr.built = CleanIds(pr.policy)

\* C5 amended: process returns trees only when every check of the policy got
\* one; at the first check without a tree it stops and answers with an error
\* that carries no tree and every diagnostic the builder holds, which are
\* those of one check at most.
C5_StopsAtFirstFailure ==
    (pr.called /\ pr.code # "P001")
        => /\ pr.status = "json"
                => /\ Len(pr.built) = Len(pr.policy)
                   /\ \A k \in 1..Len(pr.built) : pr.built[k] = pr.policy[k].id.v
                   /\ Len(errors) = pr.pre
           /\ pr.status = "error"
                => /\ pr.code = "P002"
                   /\ pr.built = <<>>
                   /\ pr.details = errors
                   /\ \A i, j \in (pr.pre + 1)..Len(errors) :
                          errors[i].id = errors[j].id

\* C5 witness: a policy of two checks, the first with a diagnostic and the
\* second clean, answered with the tree-building error.
C5_Witness ==
    /\ pr.called
    /\ pr.code = "P002"
    /\ Len(pr.policy) = 2
    /\ ProducesDiagnostic(pr.policy[1])
    /\ ~ProducesDiagnostic(pr.policy[2])

\* ------------------------------------------------------------------------
\* Claims on the executor (checked under SpecExecutor)
\* ------------------------------------------------------------------------
\* C1: every stored result is 'pass' iff the condition is 'all' and every
\* rule boolean is true, 'any' and some boolean is true, or 'none' and no
\* boolean is true; otherwise it is 'fail'. The empty list included.
C1_ConditionReduces ==
    \A id \in DOMAIN ex.results :
        /\ ex.results[id].result \in {"pass", "fail"}
        /\ ex.results[id].result = "pass"
            <=> \/ /\ ex.results[id].condition = "all"
                   /\ \A i \in 1..Len(ex.results[id].rule_results) :
                          ex.results[id].rule_results[i]
               \/ /\ ex.results[id].condition = "any"
                   /\ \E i \in 1..Len(ex.results[id].rule_results) :
                          ex.results[id].rule_results[i]
               \/ /\ ex.results[id].condition = "none"
                   /\ ~\E i \in 1..Len(ex.results[id].rule_results) :
                          ex.results[id].rule_results[i]

\* C1 witness: a 'none' check over two booleans, one of them true, stored as
\* 'fail', in a run that has returned.
C1_Witness ==
    /\ ex.ret = "success"
    /\ \E id \in DOMAIN ex.results :
          /\ ex.results[id].condition = "none"
          /\ ex.results[id].result = "fail"
          /\ Len(ex.results[id].rule_results) = 2
          /\ \E i \in 1..2 : ~ex.results[id].rule_results[i]

\* C2: rule_results holds exactly one boolean per typed rule executed so
\* far, the i-th appended by the i-th rule; the list that is stored holds one
\* per typed rule of the check.
C2_OneBooleanPerRule ==
    ex.pc = "check"
        => /\ Len(ex.rule_results) = ex.ri - 1
           /\ \A i \in 1..Len(ex.owners) : ex.owners[i] = i

\* C2 witness: the second rule of a check is a directory rule with an inner
\* file rule; the directory is there, the inner probe found no file.
C2_Witness ==
    /\ ex.pc = "check"
    /\ Len(ex.rule_results) = 2
    /\ ex.last.rule.execution_node.type = "d"
    /\ ex.last.rule.file_rules # <<>>
    /\ ex.last.env.uname = "Linux"
    /\ ex.last.env.out # <<>>
    /\ ex.last.env.files = <<>>

\* 'not R': the typed rule of R with the rule-level flag flipped
\* (_check_negation strips 'not ' and parse_rule hands the flag to the rule)
Negated(rule) == [rule EXCEPT !.negation = ~rule.negation]

\* What 'not R' appends on the host state on which R was executed last
TwinOut == execute_rule(Negated(ex.last.rule), ex.os_type, ex.last.env)

\* C3: for every rule R and every host state, the boolean appended for
\* 'not R' is the complement of the boolean appended for R.
C3_NegationComplements ==
    ex.last.called
        => /\ Len(TwinOut) = Len(ex.last.out)
           /\ \A i \in 1..Len(ex.last.out) : TwinOut[i] = ~ex.last.out[i]

\* The probe of the rule executed last failed: target missing, command
\* without output, invalid configuration, OS mismatch, uname failing
LastProbeFailed ==
    /\ ex.last.called
    /\ ~execute_node(ex.last.rule.execution_node, ex.os_type, ex.last.env).success

\* C11 as stated: a failed probe records false for its rule, whatever the
\* rule's negation flag.
C11_FailedProbeRecordsFalse ==
    LastProbeFailed => ex.last.out = <<FALSE>>

\* C11 amended: a failed probe of a rule records the rule's negation flag
\* (false for R, true for 'not R'), one boolean, and the run goes on: it is
\* not ended by the failure.
C11_FailedProbeRecordsNegation ==
    LastProbeFailed
        => /\ ex.last.out = <<ex.last.rule.negation>>
           /\ ex.ret \in {"none", "success", "Invalid condition"}
           /\ ex.pc = "check" => Len(ex.rule_results) = ex.ri - 1

\* C11 witness: the probe of a negated rule failed, true was recorded, and
\* the run went on to return its results.
C11_Witness ==
    /\ LastProbeFailed
    /\ ex.last.rule.negation
    /\ ex.last.out = <<TRUE>>
    /\ ex.ret = "success"


\* C12: a failed connection, and a failed OS detection during any probe, end
\* the run: no further rule or check is executed and the run returns
\* success=false with an error.
C12_FatalFailuresAbort ==
    /\ client = "unconnected"
          => ex.pc = "returned" /\ ex.ret = "Failed to connect to SSH"
    /\ (ex.last.called /\ ex.last.env.uname = "fail")
          => ex.pc = "returned" /\ ex.ret \notin {"none", "success"}


\* The only probe of the run so far found a host whose family differs from
\* the policy's os_type (a one-check, one-rule policy: the probe executed
\* last is the first of the run).
FirstProbeMismatched ==
    /\ ex.last.called
    /\ Len(ex.tree) = 1
    /\ Len(ex.tree[1].rules) = 1
    /\ ex.last.env.uname # "fail"
    /\ determine_actual_os_type(ex.last.env) # ex.os_type

\* C13: an OS-family mismatch found by the first probe short-circuits the
\* run: it does not go on to return success=true with per-check results.
C13_MismatchShortCircuits ==
    FirstProbeMismatched => ex.ret # "success" /\ ex.results = <<>>


\* The rule executed last is a directory rule with an inner file rule, on a
\* host where the directory was found
LastIsDirectoryWithFileRule ==
    /\ ex.last.called
    /\ ex.last.rule.execution_node.type = "d"
    /\ Len(ex.last.rule.file_rules) = 1
    /\ execute_node(ex.last.rule.execution_node, ex.os_type, ex.last.env).success

\* The inner file rule's own boolean, no negation flag applied: its probe
\* succeeded and its content predicates matched
inner_boolean(file_rule, os_type, env) ==
    /\ execute_node(file_rule.execution_node, os_type, env).success
    /\ check_content_rules(file_rule,
                           execute_node(file_rule.execution_node, os_type, env),
                           FALSE)

\* C14: for every combination of the two flags, a directory rule with an
\* inner file rule records the inner rule's boolean, flipped iff the inner
\* '!' flag is set, and then flipped iff the directory rule's 'not' is set.
C14_InnerThenOuterNegation ==
    LastIsDirectoryWithFileRule
        => ex.last.out =
              << ( ( inner_boolean(ex.last.rule.file_rules[1], ex.os_type, ex.last.env)
                       # ex.last.rule.file_rules[1].negation )
                   # ex.last.rule.negation ) >>


\* The rule executed last is a process rule or a directory rule without file
\* rules, and its probe was made (the host's family is the policy's)
LastIsPresenceRule ==
    /\ ex.last.called
    /\ ex.last.rule.execution_node.type \in {"d", "p"}
    /\ ex.last.rule.file_rules = <<>>
    /\ ~has_extra_target(ex.last.rule.execution_node)
    /\ ex.last.env.uname # "fail"
    /\ determine_actual_os_type(ex.last.env) = ex.os_type

\* C15: a process rule, and a directory rule without file rules, record
\* (target exists) XOR (rule-level negation).
C15_PresenceXorNegation ==
    LastIsPresenceRule
        => ex.last.out = << (ex.last.env.out # <<>>) # ex.last.rule.negation >>


\* C17: when the run is stopped at a check whose condition is invalid, the
\* object execute_tree returns holds the entries of the checks completed
\* before it, and none for the check that stopped it.
C17_StoppedRunKeepsCompleted ==
    ex.ret = "Invalid condition"
        => /\ \A i \in 1..(ex.ci - 1) : ex.tree[i].id.v \in DOMAIN ex.ret_results
           /\ \A id \in DOMAIN ex.ret_results :
                 \E i \in 1..(ex.ci - 1) : ex.tree[i].id.v = id


\* ------------------------------------------------------------------------
\* Claims on the SSHManager (checked under SpecSSH)
\* ------------------------------------------------------------------------
\* C21: close() is idempotent: a close() that follows a close() finds no
\* client, leaves none, does not raise and makes no call on an SSHClient.
C21_CloseIdempotent ==
    [][ (ssh.op = "close" /\ ssh'.op = "close" /\ ssh'.calls = ssh.calls + 1)
            => /\ client = "none"
               /\ client' = "none"
               /\ ~ssh'.raised
               /\ ssh'.closed = ssh.closed
               /\ ssh'.opened = ssh.opened /\ ssh'.sent = ssh.sent ]_vars

\* C21 witness: after a connect, close() was called twice in a row; the
\* client was closed once.
C21_Witness ==
    /\ ssh.op = "close"
    /\ ssh.prev = "close"
    /\ ssh.opened >= 1
    /\ ssh.closed = 1
    /\ client = "none"


\* ------------------------------------------------------------------------
\* Claims on the session of a run (checked under SpecExecutor)
\* ------------------------------------------------------------------------
\* C22: a run of execute_tree opens one session; every command of every
\* probe is sent on the connected client, after the connect and before the
\* close; and execute_command on a manager without a connected client raises
\* and sends nothing.
C22_OneSessionProbesInside ==
    /\ ex.pc # "idle" => ssh.opened = 1
    /\ ex.last.called
          => /\ ex.last.on = "connected"
             /\ Len(ex.last.cmds) >= 1
             /\ ssh.sent >= Len(ex.last.cmds)
    /\ ssh.op = "execute_command" => ~ssh.raised /\ ssh.closed = 0
    /\ ssh.closed > 0 => ssh.op = "close" /\ ex.pc = "returned"
    /\ ssh.sent > 0 => ex.ret # "Failed to connect to SSH"
    /\ \A c \in {"none", "unconnected"} :
          /\ execute_command(c, ssh).log.raised
          /\ execute_command(c, ssh).log.sent = ssh.sent

\* C22 witness: a run that sent the commands of its probes and of a file
\* read on its one session, closed it and returned.
C22_Witness ==
    /\ ex.ret = "success"
    /\ ssh.opened = 1
    /\ ssh.closed = 1
    /\ ssh.sent >= 3
    /\ \E i \in 1..Len(ex.last.cmds) : ex.last.cmds[i].kind = "read"


\* C23: the sudo prefix is put on a command only when the OS family of the
\* policy is linux; under a windows policy every probe is sent without it,
\* and a command rule's main_target is sent.
C23_SudoOnlyOnLinux ==
    ex.last.called
        => /\ \A i \in 1..Len(ex.last.cmds) :
                 ex.last.cmds[i].sudo => ex.os_type = "linux"
           /\ (/\ ex.os_type = "windows"
               /\ ex.last.rule.execution_node.type = "c"
               /\ ~has_extra_target(ex.last.rule.execution_node)
               /\ ex.last.env.uname = "Other")
                 => \E i \in 1..Len(ex.last.cmds) : ex.last.cmds[i].kind = "command"


\* C24: a registry rule whose query succeeds records what the content
\* matcher gives for its content rules over the query's output, rule-level
\* negation applied, as a command rule does.
C24_RegistryOutputMatched ==
    (/\ ex.last.called
     /\ ex.last.rule.execution_node.type = "r"
     /\ execute_node(ex.last.rule.execution_node, ex.os_type, ex.last.env).success)
        => ex.last.out
             = << check_lines(ex.last.env.out, ex.last.rule.content_rules,
                              ex.last.rule.negation) = "true" >>


\* The rule executed last is a directory rule with an inner file rule whose
\* directory was found, on a host of the policy's family
\* (LastIsDirectoryWithFileRule), and the inner probe sent its command
InnerProbeSent ==
    /\ LastIsDirectoryWithFileRule
    /\ \E i \in 1..Len(ex.last.cmds) : ex.last.cmds[i].kind \in {"listing", "file"}

\* C26: the inner file rule of a directory rule is probed inside that
\* directory: a pattern lists the files under the directory's main_target, a
\* literal name is tested at <directory>/<name>.
C26_InnerProbeInsideDirectory ==
    InnerProbeSent
        => \A i \in 1..Len(ex.last.cmds) :
              /\ ex.last.cmds[i].kind = "listing"
                    => ex.last.cmds[i].target = ex.last.rule.execution_node.main_target
              /\ ex.last.cmds[i].kind = "file"
                    => ex.last.cmds[i].target
                         = ex.last.rule.execution_node.main_target \o "/"
                             \o ex.last.rule.file_rules[1].execution_node.main_target


\* C27: whenever execute_tree has returned - with results, at an invalid
\* condition, or after a failed connect - the manager holds no client.
C27_NoClientAfterReturn ==
    ex.pc = "returned" => client = "none"


\* ------------------------------------------------------------------------
\* Claims on the pipeline (checked under SpecProcessor)
\* ------------------------------------------------------------------------
\* C29: when process succeeded on a policy, executor on the value it
\* returned, against a host that accepts the connection, returns status
\* 'success' with one result entry per check id of the policy.
C29_PipelineComposes ==
    pr.run.called
        => /\ pr.run.status = "success"
           /\ {pr.run.ids[i] : i \in 1..Len(pr.run.ids)}
                 = {pr.built[i] : i \in 1..Len(pr.built)}


\* ------------------------------------------------------------------------
\* Claims on the demo API (checked under SpecApi)
\* ------------------------------------------------------------------------
\* C30: under any interleaving of /audit/execute requests, once some audit
\* has completed and stored its result, GET /audit/result returns the stored
\* result of a completed audit and not a 'not found' error.
C30_QueryReturnsStoredResult ==
    (api.query.called /\ api.query.stored # {})
        => /\ api.query.status = "result"
           /\ api.query.task_id \in api.query.stored

====
